---- MODULE Spec2Model ----
(***************************************************************************)
(* Model of salvo's CSRF middleware, crates/csrf/src/lib.rs.               *)
(*                                                                         *)
(* A Csrf guard is built (Csrf::new, add_finder, add_fallabck_cipher) and  *)
(* then handles requests.  Csrf::handle is an async fn: its code runs in   *)
(* segments separated by the awaits on find_token, load_secret,            *)
(* save_secret and call_next, and requests in flight interleave at those   *)
(* awaits.  Each segment is one action.                                    *)
(*                                                                         *)
(* The ciphers, the stores and the finders are other files of the crate    *)
(* (hmac_cipher.rs, cookie_store.rs, finder.rs, ...); lib.rs holds their   *)
(* traits only, so their behaviour follows the contracts of the design     *)
(* document: a cipher binds a token to a secret, a store keeps one secret  *)
(* per request context.                                                    *)
(***************************************************************************)
EXTENDS Integers, Sequences, FiniteSets, TLC

VARIABLES
    guard,      \* the Csrf struct: cipher, finders, fallback_ciphers
    phase,      \* "build" while the builder methods run, "serve" once it is a Handler
    store,      \* the CsrfStore: context -> Option<secret>
    rng,        \* how many secrets the random source has produced
    reqs,       \* the invocations of Csrf::handle in flight, per slot; the fields
                \* calls, logs, prior and raced of a request are history, not
                \* program state
    issued,     \* history: the pairs exposed to downstream handlers, in order
    accepted    \* history: completed non-skipped requests that were accepted

vars == <<guard, phase, store, rng, reqs, issued, accepted>>

(***************************************************************************)
(* Bounds of the model.                                                    *)
(***************************************************************************)
MaxGen == 3         \* secrets the random source produces in a run of Spec or SpecRace
MaxGenWide == 2     \* the same, in a run of SpecConc, SpecInputs or SpecCancel
MaxFinders == 2     \* finders a guard is built with
MaxFallbacks == 1   \* fallback ciphers a guard is built with

Slots == {1, 2}                 \* concurrent invocations of handle
Contexts == {"c1", "c2"}        \* request contexts (cookie jar / session)
Ciphers == {"A", "B"}           \* cipher implementations with distinct keys
Locations == {"header", "query"}
Methods == {"GET", "HEAD", "POST", "PATCH", "DELETE", "PUT"}

None == [some |-> FALSE, val |-> <<>>]
Some(x) == [some |-> TRUE, val |-> x]

(***************************************************************************)
(* URL_SAFE_NO_PAD.  A text is a sequence of symbols: 0..63 is the index   *)
(* of a character in the URL-safe alphabet, PadSym is '='.  A byte is      *)
(* 0..255.                                                                 *)
(***************************************************************************)
PadSym == 64

RECURSIVE b64_encode(_)
b64_encode(bytes) ==
    IF Len(bytes) = 0 THEN <<>>
    ELSE IF Len(bytes) = 1 THEN
        << bytes[1] \div 4, (bytes[1] % 4) * 16 >>
    ELSE IF Len(bytes) = 2 THEN
        << bytes[1] \div 4,
           (bytes[1] % 4) * 16 + bytes[2] \div 16,
           (bytes[2] % 16) * 4 >>
    ELSE
        << bytes[1] \div 4,
           (bytes[1] % 4) * 16 + bytes[2] \div 16,
           (bytes[2] % 16) * 4 + bytes[3] \div 64,
           bytes[3] % 64 >>
        \o b64_encode(SubSeq(bytes, 4, Len(bytes)))

\* Err is [ok |-> FALSE]; Ok(bytes) is [ok |-> TRUE, bytes |-> ...]
RECURSIVE b64_decode(_)
b64_decode(text) ==
    LET bad == [ok |-> FALSE, bytes |-> <<>>]
        sym(i) == text[i] \in 0..63
    IN  IF Len(text) = 0 THEN [ok |-> TRUE, bytes |-> <<>>]
        ELSE IF Len(text) = 1 THEN bad
        ELSE IF ~(sym(1) /\ sym(2)) THEN bad
        ELSE IF Len(text) = 2 THEN
            IF text[2] % 16 # 0 THEN bad
            ELSE [ok |-> TRUE, bytes |-> << text[1] * 4 + text[2] \div 16 >>]
        ELSE IF ~sym(3) THEN bad
        ELSE IF Len(text) = 3 THEN
            IF text[3] % 4 # 0 THEN bad
            ELSE [ok |-> TRUE,
                  bytes |-> << text[1] * 4 + text[2] \div 16,
                               (text[2] % 16) * 16 + text[3] \div 4 >>]
        ELSE IF ~sym(4) THEN bad
        ELSE LET rest == b64_decode(SubSeq(text, 5, Len(text)))
             IN  IF ~rest.ok THEN bad
                 ELSE [ok |-> TRUE,
                       bytes |-> << text[1] * 4 + text[2] \div 16,
                                    (text[2] % 16) * 16 + text[3] \div 4,
                                    (text[3] % 4) * 64 + text[4] >>
                                 \o rest.bytes]

(***************************************************************************)
(* CsrfCipher.  The secret is random bytes; the token is the cipher's      *)
(* keyed transform of the secret (a MAC under the cipher's key), so a      *)
(* token verifies against a secret under a cipher iff that cipher made it  *)
(* from that secret.                                                       *)
(***************************************************************************)
CipherKey(c) == IF c = "A" THEN 65 ELSE 66

Mac(c, secret) == <<CipherKey(c)>> \o secret

verify(c, token, secret) == token = Mac(c, secret)

\* generate(), drawing the n-th output of the random source
generate(c, n) == [token |-> Mac(c, <<n>>), secret |-> <<n>>]

(***************************************************************************)
(* CsrfStore: one secret per request context.                              *)
(***************************************************************************)
load_secret(st, ctx) == st[ctx]

\* save_secret either persists the secret (Ok) or leaves the store as it was (Err)
save_secret(st, ctx, secret, ok) ==
    IF ok THEN [st EXCEPT ![ctx] = Some(secret)] ELSE st

(***************************************************************************)
(* The Csrf struct and its builder methods.                                *)
(***************************************************************************)
FORBIDDEN == 403

\* default_skipper without PUT in its list
default_skipper_without_put(method) == method \notin {"POST", "PATCH", "DELETE"}

default_skipper(method) == method \notin {"POST", "PATCH", "DELETE", "PUT"}

New(c, f) == [cipher |-> c, finders |-> <<f>>, fallback_ciphers |-> <<>>]

add_finder(g, f) == [g EXCEPT !.finders = Append(@, f)]

add_fallabck_cipher(g, c) == [g EXCEPT !.fallback_ciphers = Append(@, c)]

\* a finder reads the token at its location of the request
finder_find_token(f, content) == content[f]

\* the finders that Csrf::find_token calls, in order
RECURSIVE finders_called(_, _)
finders_called(fs, content) ==
    IF fs = <<>> THEN <<>>
    ELSE IF finder_find_token(Head(fs), content).some THEN <<Head(fs)>>
    ELSE <<Head(fs)>> \o finders_called(Tail(fs), content)

\* find_token returning the result of the last finder that yields a token
find_token_last_wins(fs, content) ==
    LET Y == {i \in 1..Len(fs) : finder_find_token(fs[i], content).some}
    IN  IF Y = {} THEN None
        ELSE finder_find_token(fs[CHOOSE i \in Y : \A j \in Y : j <= i], content)

\* for finder in self.finders.iter() { if let Some(token) = ... { return Some(token) } } None
RECURSIVE find_token(_, _)
find_token(fs, content) ==
    IF fs = <<>> THEN None
    ELSE IF finder_find_token(Head(fs), content).some
         THEN finder_find_token(Head(fs), content)
         ELSE find_token(Tail(fs), content)

\* the loop over self.fallback_ciphers: TRUE at the first cipher that verifies
RECURSIVE fallback_verify(_, _, _)
fallback_verify(cs, token, secret) ==
    IF cs = <<>> THEN FALSE
    ELSE IF verify(Head(cs), token, secret) THEN TRUE
    ELSE fallback_verify(Tail(cs), token, secret)

\* the fallback ciphers whose verify the loop calls, in order
RECURSIVE fallbacks_called(_, _, _)
fallbacks_called(cs, token, secret) ==
    IF cs = <<>> THEN <<>>
    ELSE IF verify(Head(cs), token, secret) THEN <<Head(cs)>>
    ELSE <<Head(cs)>> \o fallbacks_called(Tail(cs), token, secret)

\* whether handle enters the branch that loops over the fallback ciphers
fallback_branch(g, valid) == ~valid /\ g.fallback_ciphers = <<>>

\* check_token with a fallback branch that sets valid without calling verify
check_token_unverified_fallback(g, token, secret) ==
    LET valid == verify(g.cipher, token, secret)
    IN  IF fallback_branch(g, valid) THEN TRUE ELSE valid

\* the value of `valid` when handle tests it
check_token(g, token, secret) ==
    LET valid == verify(g.cipher, token, secret)
    IN  IF fallback_branch(g, valid)
        THEN valid \/ fallback_verify(g.fallback_ciphers, token, secret)
        ELSE valid

\* decode_failed taking every text for decodable
decode_failed_never(dec) == FALSE

\* the else branch of `if let Ok(token) = URL_SAFE_NO_PAD.decode(token)`
decode_failed(dec) == ~dec.ok

\* should_reject with the test inverted
should_reject_inverted(valid) == valid

\* if !valid { ... return }
should_reject(valid) == ~valid

\* generating_cipher taking the first fallback cipher when there is one
generating_cipher_fallback(g) ==
    IF g.fallback_ciphers = <<>> THEN g.cipher ELSE g.fallback_ciphers[1]

\* the cipher whose generate() handle calls
generating_cipher(g) == g.cipher

(***************************************************************************)
(* One invocation of Csrf::handle.                                         *)
(***************************************************************************)
\* an entry of a request's call trace: the operation and whom it was called on
Call(op) == <<op, "">>

CallsOn(op, targets) == [i \in 1..Len(targets) |-> <<op, targets[i]>>]

IdleReq ==
    [pc |-> "idle", method |-> "GET", ctx |-> "c1", skipped |-> FALSE,
     header |-> None, query |-> None,
     found |-> None, token |-> None, secret |-> None, valid |-> FALSE,
     gen_cipher |-> "A", new_token |-> <<>>, new_secret |-> <<>>, saved |-> FALSE,
     depot |-> None, status |-> None, skip_rest |-> FALSE, next_calls |-> 0,
     calls |-> <<>>, logs |-> <<>>, prior |-> {}, raced |-> FALSE]

\* a record of tracing::debug!: the message and the value formatted into it
Debug(msg, value) == [level |-> "debug", msg |-> msg, value |-> value]

\* the record of tracing::error!(error = ?e, ...): it carries the store's error
Error(msg) == [level |-> "error", msg |-> msg, value |-> None]

\* request q after handle emitted the records recs
Log(q, recs) == [q EXCEPT !.logs = @ \o recs]

\* the records handle emits while it verifies the token
verify_logs(g, first, token, secret) ==
    IF fallback_branch(g, first)
    THEN <<Debug("try to use fallback ciphers to verify CSRF token", None)>>
         \o (IF fallback_verify(g.fallback_ciphers, token, secret)
             THEN <<Debug("fallback cipher verify CSRF token success", None)>>
             ELSE <<>>)
    ELSE <<Debug("cipher verify CSRF token success", None)>>

\* the records handle emits after save_secret returned
save_logs(q) ==
    (IF q.saved THEN <<>> ELSE <<Error("salvo csrf token failed")>>)
    \o <<Debug("new token", Some(b64_encode(q.new_token)))>>

\* reject without ctrl.skip_rest()
reject_without_skip_rest(q) ==
    [q EXCEPT !.status = Some(FORBIDDEN), !.pc = "rejected",
              !.calls = @ \o <<Call("set_status")>>]

\* reject inserting an empty token into the depot
reject_inserting_token(q) ==
    [q EXCEPT !.status = Some(FORBIDDEN), !.skip_rest = TRUE, !.pc = "rejected",
              !.depot = Some(<<>>),
              !.calls = @ \o <<Call("insert"), Call("set_status"), Call("skip_rest")>>]

\* reject putting the text it found in the request into the depot
reject_echoing_token(q) ==
    [q EXCEPT !.status = Some(FORBIDDEN), !.skip_rest = TRUE, !.pc = "rejected",
              !.depot = q.found,
              !.calls = @ \o <<Call("set_status"), Call("skip_rest")>>]

\* res.set_status_code(StatusCode::FORBIDDEN); ctrl.skip_rest(); return
reject(q) ==
    [q EXCEPT !.status = Some(FORBIDDEN), !.skip_rest = TRUE, !.pc = "rejected",
              !.calls = @ \o <<Call("set_status"), Call("skip_rest")>>]

\* let (token, secret) = self.cipher.generate(); self.store.save_secret(..).await
regenerate(g, q, n) ==
    LET c == generating_cipher(g)
        pair == generate(c, n)
    IN  [q EXCEPT !.gen_cipher = c, !.new_token = pair.token,
                  !.new_secret = pair.secret, !.pc = "saving",
                  !.calls = @ \o <<<<"generate", c>>, Call("save_secret")>>]

\* store_context naming one context for every request
store_context_shared(q) == "c1"

\* the context the store works on: the req and depot handle passes to it
store_context(q) == q.ctx

\* secret_to_save passing the token of the pair
secret_to_save_token(q) == q.new_token

\* secret_to_save passing the secret that load_secret returned
secret_to_save_loaded(q) == IF q.secret.some THEN q.secret.val ELSE q.new_secret

\* the secret handle passes to save_secret
secret_to_save(q) == q.new_secret

\* exposed_token encoding with padding (URL_SAFE instead of URL_SAFE_NO_PAD)
exposed_token_padded(q) ==
    LET text == b64_encode(q.new_token)
    IN  IF Len(text) % 4 = 0 THEN text
        ELSE text \o [i \in 1..(4 - (Len(text) % 4)) |-> PadSym]

\* exposed_token handing back the token the request presented
exposed_token_stale(q) ==
    IF q.found.some THEN q.found.val ELSE b64_encode(q.new_token)

\* the token handle inserts into the depot
exposed_token(q) == b64_encode(q.new_token)

\* expose setting 403 and skip_rest as well as calling the next handler
expose_and_reject(q) ==
    [q EXCEPT !.depot = Some(exposed_token(q)),
              !.status = Some(FORBIDDEN), !.skip_rest = TRUE,
              !.next_calls = @ + 1, !.pc = "next",
              !.calls = @ \o <<Call("insert"), Call("call_next")>>]

\* expose rejecting the request when save_secret returned Err
expose_unless_save_failed(q) ==
    IF q.saved
    THEN [q EXCEPT !.depot = Some(exposed_token(q)),
                   !.next_calls = @ + 1, !.pc = "next",
                   !.calls = @ \o <<Call("insert"), Call("call_next")>>]
    ELSE [q EXCEPT !.status = Some(FORBIDDEN), !.skip_rest = TRUE, !.pc = "rejected",
                   !.depot = Some(exposed_token(q)),
                   !.calls = @ \o <<Call("set_status"), Call("skip_rest")>>]

\* after save_secret returned Ok or Err: encode, depot.insert, ctrl.call_next
expose(q) ==
    [q EXCEPT !.depot = Some(exposed_token(q)),
              !.next_calls = @ + 1, !.pc = "next",
              !.calls = @ \o <<Call("insert"), Call("call_next")>>]

\* what a client can put at a location of a request: nothing, a text that is no
\* token (the two of the tests: "aGVsbG8=" and "aGVsbG8"), or a token it was given
PaddedText == <<26, 6, 21, 44, 27, 6, 60, PadSym>>
HelloText == <<26, 6, 21, 44, 27, 6, 60>>

Presentable ==
    {None} \cup {Some(PaddedText), Some(HelloText)}
           \cup {Some(issued[i].token) : i \in 1..Len(issued)}

\* between generate and the insert into the depot
InWindow(q) == q.pc \in {"saving", "saved"}

\* request r becomes q, which has just generated its pair: q and the requests of
\* its context that are between generate and insert as well are marked raced
EnterWindow(r, q) ==
    [s \in Slots |->
        IF s = r
        THEN [q EXCEPT !.raced = \E o \in Slots \ {r} :
                                    InWindow(reqs[o]) /\ reqs[o].ctx = q.ctx]
        ELSE IF InWindow(reqs[s]) /\ reqs[s].ctx = q.ctx
        THEN [reqs[s] EXCEPT !.raced = TRUE]
        ELSE reqs[s]]

LowestIdle(r) ==
    /\ reqs[r].pc = "idle"
    /\ \A s \in Slots : s < r => reqs[s].pc # "idle"

\* handle up to its first await: the skipper, then find_token or generate + save_secret
\* (lim bounds the run: the random source produces at most lim secrets)
Arrive(r, m, x, lim) ==
    /\ phase = "serve"
    /\ LowestIdle(r)
    /\ LET q0 == [IdleReq EXCEPT !.method = m, !.ctx = x,
                                 !.skipped = default_skipper(m),
                                 !.prior = {a \in accepted : a.ctx = x},
                                 !.calls = <<Call("skipper")>>]
       IN  IF q0.skipped
           THEN /\ rng < lim
                /\ reqs' = EnterWindow(r, regenerate(guard, q0, rng + 1))
                /\ rng' = rng + 1
           ELSE /\ reqs' = [reqs EXCEPT ![r] = [q0 EXCEPT !.pc = "finding"]]
                /\ rng' = rng
    /\ UNCHANGED <<guard, phase, store, issued, accepted>>

\* find_token returned: reject, or decode and await load_secret
FindDone(r, h, qy) ==
    /\ reqs[r].pc = "finding"
    /\ LET content == [header |-> h, query |-> qy]
           found == find_token(guard.finders, content)
           q1 == [reqs[r] EXCEPT !.header = h, !.query = qy, !.found = found,
                      !.calls = @ \o CallsOn("finder", finders_called(guard.finders, content))]
           dec == b64_decode(found.val)
           q2 == [q1 EXCEPT !.calls = @ \o <<Call("decode")>>,
                            !.logs = @ \o <<Debug("csrf token", found)>>]
       IN  reqs' = [reqs EXCEPT ![r] =
               IF ~found.some
               THEN reject(Log(q1,
                        <<Debug("rejecting request due to missing CSRF cookie", None)>>))
               ELSE IF decode_failed(dec)
               THEN reject(Log(q2,
                        <<Debug("rejecting request due to decode token failed", None)>>))
               ELSE [q2 EXCEPT !.token = Some(dec.bytes), !.pc = "loading",
                               !.calls = @ \o <<Call("load_secret")>>]]
    /\ UNCHANGED <<guard, phase, store, rng, issued, accepted>>

\* load_secret returned: reject, or verify and then reject or generate + save_secret
LoadDone(r, lim) ==
    /\ reqs[r].pc = "loading"
    /\ LET q == reqs[r]
           secret == load_secret(store, store_context(q))
           q1 == [q EXCEPT !.secret = secret]
           first == verify(guard.cipher, q.token.val, secret.val)
           valid == check_token(guard, q.token.val, secret.val)
           q2 == [q1 EXCEPT !.valid = valid,
                      !.logs = @ \o verify_logs(guard, first, q.token.val, secret.val),
                      !.calls = @ \o <<<<"verify", guard.cipher>>>>
                                  \o (IF fallback_branch(guard, first)
                                      THEN CallsOn("verify",
                                               fallbacks_called(guard.fallback_ciphers,
                                                                q.token.val, secret.val))
                                      ELSE <<>>)]
       IN  IF ~secret.some
           THEN /\ reqs' = [reqs EXCEPT ![r] = reject(Log(q1,
                        <<Debug("rejecting request due to missing CSRF token", None)>>))]
                /\ rng' = rng
           ELSE IF should_reject(valid)
           THEN /\ reqs' = [reqs EXCEPT ![r] = reject(Log(q2,
                        <<Debug("rejecting request due to invalid or expired CSRF token",
                                None)>>))]
                /\ rng' = rng
           ELSE /\ rng < lim
                /\ reqs' = EnterWindow(r, regenerate(guard, q2, rng + 1))
                /\ rng' = rng + 1
    /\ UNCHANGED <<guard, phase, store, issued, accepted>>

\* the store runs save_secret: it persists the secret and answers Ok, or answers Err
SaveSecret(r, ok) ==
    /\ reqs[r].pc = "saving"
    /\ reqs' = [reqs EXCEPT ![r].saved = ok, ![r].pc = "saved"]
    /\ store' = save_secret(store, store_context(reqs[r]), secret_to_save(reqs[r]), ok)
    /\ UNCHANGED <<guard, phase, rng, issued, accepted>>

\* save_secret returned: encode, insert into the depot, call_next
SaveDone(r) ==
    /\ reqs[r].pc = "saved"
    /\ LET q == expose(Log(reqs[r], save_logs(reqs[r])))
       IN  /\ reqs' = [reqs EXCEPT ![r] = q]
           /\ issued' = Append(issued, [ctx |-> q.ctx, token |-> q.depot.val,
                                        secret |-> q.new_secret, cipher |-> q.gen_cipher,
                                        saved |-> q.saved, raced |-> q.raced])
    /\ UNCHANGED <<guard, phase, store, rng, accepted>>

\* call_next returned: handle returns
NextDone(r) ==
    /\ reqs[r].pc = "next"
    /\ reqs' = [reqs EXCEPT ![r].pc = "done"]
    /\ accepted' = IF reqs[r].skipped THEN accepted
                   ELSE accepted \cup {[ctx |-> reqs[r].ctx, token |-> reqs[r].found.val,
                                        saved |-> reqs[r].saved]}
    /\ UNCHANGED <<guard, phase, store, rng, issued>>

\* the request is aborted while handle is suspended at one of its awaits: the
\* future of handle is dropped and runs no further
Cancel(r) ==
    /\ reqs[r].pc \in {"finding", "loading", "saving", "saved", "next"}
    /\ reqs' = [reqs EXCEPT ![r].pc = "cancelled"]
    /\ UNCHANGED <<guard, phase, store, rng, issued, accepted>>

\* the response has been sent, or the aborted request is gone
Recycle(r) ==
    /\ reqs[r].pc \in {"done", "rejected", "cancelled"}
    /\ reqs' = [reqs EXCEPT ![r] = IdleReq]
    /\ UNCHANGED <<guard, phase, store, rng, issued, accepted>>

AddFinder(f) ==
    /\ phase = "build"
    /\ Len(guard.finders) < MaxFinders
    /\ guard' = add_finder(guard, f)
    /\ UNCHANGED <<phase, store, rng, reqs, issued, accepted>>

AddFallbackCipher(c) ==
    /\ phase = "build"
    /\ Len(guard.fallback_ciphers) < MaxFallbacks
    /\ guard' = add_fallabck_cipher(guard, c)
    /\ UNCHANGED <<phase, store, rng, reqs, issued, accepted>>

\* the guard is handed to the router
Serve ==
    /\ phase = "build"
    /\ phase' = "serve"
    /\ UNCHANGED <<guard, store, rng, reqs, issued, accepted>>

\* the service is restarted with a newly built guard; the store outlives it
Redeploy(c, f) ==
    /\ phase = "serve"
    /\ \A r \in Slots : reqs[r].pc = "idle"
    /\ guard' = New(c, f)
    /\ phase' = "build"
    /\ UNCHANGED <<store, rng, reqs, issued, accepted>>

InitWith(cs, fs) ==
    /\ guard \in {New(c, f) : c \in cs, f \in fs}
    /\ phase = "build"
    /\ store = [x \in Contexts |-> None]
    /\ rng = 0
    /\ reqs = [r \in Slots |-> IdleReq]
    /\ issued = <<>>
    /\ accepted = {}

(***************************************************************************)
(* Spec: key rotation.  Requests of one context are handled one at a      *)
(* time, by any method, with the token in the header; the guard has any    *)
(* primary cipher and any fallback ciphers, and the service is redeployed  *)
(* with another guard while the store keeps its secrets.                   *)
(***************************************************************************)
Init == InitWith(Ciphers, {"header"})

Next ==
    \/ \E m \in Methods : Arrive(1, m, "c1", MaxGen)
    \/ \E h \in Presentable : FindDone(1, h, None)
    \/ LoadDone(1, MaxGen)
    \/ \E ok \in BOOLEAN : SaveSecret(1, ok)
    \/ SaveDone(1)
    \/ NextDone(1)
    \/ Recycle(1)
    \/ \E c \in Ciphers : AddFallbackCipher(c)
    \/ Serve
    \/ \E c \in Ciphers : Redeploy(c, "header")

Spec == Init /\ [][Next]_vars

(***************************************************************************)
(* SpecConc: concurrent requests.  One guard (cipher A, header finder)     *)
(* handles GET and POST requests of two contexts, two at a time,           *)
(* interleaved at the awaits of handle.                                    *)
(***************************************************************************)
InitConc == InitWith({"A"}, {"header"})

NextConc ==
    \/ \E r \in Slots, m \in {"GET", "POST"}, x \in Contexts : Arrive(r, m, x, MaxGenWide)
    \/ \E r \in Slots, h \in Presentable : FindDone(r, h, None)
    \/ \E r \in Slots : LoadDone(r, MaxGenWide)
    \/ \E r \in Slots, ok \in BOOLEAN : SaveSecret(r, ok)
    \/ \E r \in Slots : SaveDone(r)
    \/ \E r \in Slots : NextDone(r)
    \/ \E r \in Slots : Recycle(r)
    \/ Serve

SpecConc == InitConc /\ [][NextConc]_vars

(***************************************************************************)
(* SpecInputs: the request's inputs.  One guard with cipher A and any list *)
(* of finders handles, one at a time, requests of any method with any      *)
(* texts in the header and in the query.                                   *)
(***************************************************************************)
InitInputs == InitWith({"A"}, Locations)

NextInputs ==
    \/ \E m \in Methods, x \in Contexts : Arrive(1, m, x, MaxGenWide)
    \/ \E h \in Presentable, qy \in Presentable : FindDone(1, h, qy)
    \/ LoadDone(1, MaxGenWide)
    \/ \E ok \in BOOLEAN : SaveSecret(1, ok)
    \/ SaveDone(1)
    \/ NextDone(1)
    \/ Recycle(1)
    \/ \E f \in Locations : AddFinder(f)
    \/ Serve

SpecInputs == InitInputs /\ [][NextInputs]_vars

(***************************************************************************)
(* SpecRace: requests of one context race.  One guard (cipher A, header    *)
(* finder) handles GET and POST requests of one context, two at a time,    *)
(* interleaved at the awaits of handle; every save_secret returns Ok.      *)
(***************************************************************************)
InitRace == InitWith({"A"}, {"header"})

NextRace ==
    \/ \E r \in Slots, m \in {"GET", "POST"} : Arrive(r, m, "c1", MaxGen)
    \/ \E r \in Slots, h \in Presentable : FindDone(r, h, None)
    \/ \E r \in Slots : LoadDone(r, MaxGen)
    \/ \E r \in Slots : SaveSecret(r, TRUE)
    \/ \E r \in Slots : SaveDone(r)
    \/ \E r \in Slots : NextDone(r)
    \/ \E r \in Slots : Recycle(r)
    \/ Serve

SpecRace == InitRace /\ [][NextRace]_vars

(***************************************************************************)
(* SpecCancel: cancellation.  One guard (cipher A, header finder) handles  *)
(* GET and POST requests of one context, one at a time; a request can be   *)
(* aborted at any await of handle.                                         *)
(***************************************************************************)
InitCancel == InitWith({"A"}, {"header"})

NextCancel ==
    \/ \E m \in {"GET", "POST"} : Arrive(1, m, "c1", MaxGenWide)
    \/ \E h \in Presentable : FindDone(1, h, None)
    \/ LoadDone(1, MaxGenWide)
    \/ \E ok \in BOOLEAN : SaveSecret(1, ok)
    \/ SaveDone(1)
    \/ NextDone(1)
    \/ Cancel(1)
    \/ Recycle(1)
    \/ Serve

SpecCancel == InitCancel /\ [][NextCancel]_vars

(***************************************************************************)
(* Properties.                                                             *)
(***************************************************************************)
Started(q) == q.pc # "idle"
Rejected(q) == q.pc = "rejected"
\* handle is past its verification: it generates, saves, exposes and continues
Continued(q) == q.pc \in {"saving", "saved", "next", "done"}
\* handle has decided to reject or to continue
Decided(q) == Rejected(q) \/ Continued(q)
\* ctrl.call_next has been called
NextInvoked(q) == q.pc \in {"next", "done"}
\* self.cipher.generate() has been called
HasGenerated(q) == q.new_token # <<>>

ConfiguredCiphers(g) ==
    {g.cipher} \cup {g.fallback_ciphers[i] : i \in 1..Len(g.fallback_ciphers)}

NoTokenFound(q) == ~q.found.some
Undecodable(q) == q.found.some /\ ~b64_decode(q.found.val).ok
NoSecret(q) == q.token.some /\ ~q.secret.some
NoCipherVerifies(q) ==
    /\ q.token.some /\ q.secret.some
    /\ \A c \in ConfiguredCiphers(guard) : ~verify(c, q.token.val, q.secret.val)

\* C1: a non-skipped request with no token found, an undecodable token, no stored
\* secret, or a token that no configured cipher verifies against the stored secret
\* gets status 403 and skip_rest, and the next handler is never invoked.
C1_BadTokenRejected ==
    \A r \in Slots :
        LET q == reqs[r]
        IN  (/\ Decided(q) /\ ~q.skipped
             /\ (NoTokenFound(q) \/ Undecodable(q) \/ NoSecret(q) \/ NoCipherVerifies(q)))
            => /\ Rejected(q)
               /\ q.status = Some(FORBIDDEN)
               /\ q.skip_rest
               /\ q.next_calls = 0

\* reached: a request rejected because neither the primary nor the listed fallback
\* cipher verifies its decoded token against the stored secret
C1_Witness ==
    \E r \in Slots :
        /\ Rejected(reqs[r]) /\ NoCipherVerifies(reqs[r])
        /\ guard.fallback_ciphers # <<>>

\* C2: a non-skipped request is on the continue path only if the primary cipher or
\* one of the fallback ciphers verifies the token decoded from the text found in
\* the request against the secret loaded for the request.
C2_ContinueOnlyIfVerified ==
    \A r \in Slots :
        LET q == reqs[r]
        IN  (Continued(q) /\ ~q.skipped)
            => /\ q.found.some /\ q.token.some /\ q.secret.some
               /\ q.token.val = b64_decode(q.found.val).bytes
               /\ \E c \in ConfiguredCiphers(guard) :
                      verify(c, q.token.val, q.secret.val)

\* reached: the next handler runs for a non-skipped request
C2_Witness ==
    \E r \in Slots : NextInvoked(reqs[r]) /\ ~reqs[r].skipped /\ reqs[r].valid

\* C3: when the primary cipher fails to verify a token, a fallback cipher that
\* verifies it makes the request accepted; a token of cipher A is rejected only
\* when A is not listed.
C3_FallbackAccepts ==
    \A r \in Slots :
        LET q == reqs[r]
        IN  (/\ Decided(q) /\ ~q.skipped /\ q.token.some /\ q.secret.some
             /\ ~verify(guard.cipher, q.token.val, q.secret.val)
             /\ fallback_verify(guard.fallback_ciphers, q.token.val, q.secret.val))
            => ~Rejected(q)

\* the pairs that handle issued with the guard's present primary cipher
IssuedByGuard == {i \in 1..Len(issued) : issued[i].cipher = guard.cipher}

\* the store returns secret for request q: q loaded it, or q was rejected before
\* it called load_secret and the store holds it
StoreReturns(q, secret) ==
    \/ q.secret = Some(secret)
    \/ Rejected(q) /\ ~q.secret.some /\ store[q.ctx] = Some(secret)

\* C4: a non-skipped request that presents, unchanged, a token this guard exposed,
\* while the store returns the secret generated with it, is accepted: no 403, and
\* the next handler is invoked.
C4_RoundTrip ==
    \A r \in Slots :
        LET q == reqs[r]
        IN  (/\ Decided(q) /\ ~q.skipped /\ q.found.some
             /\ \E i \in IssuedByGuard :
                    /\ q.found.val = issued[i].token
                    /\ StoreReturns(q, issued[i].secret))
            => /\ Continued(q)
               /\ q.status = None /\ ~q.skip_rest
               /\ (q.pc \in {"next", "done"} => q.next_calls = 1)

\* reached: the next handler runs for a request that presented an issued token
\* against its paired secret
C4_Witness ==
    \E r \in Slots :
        /\ NextInvoked(reqs[r]) /\ reqs[r].found.some
        /\ \E i \in IssuedByGuard :
               /\ reqs[r].found.val = issued[i].token
               /\ reqs[r].secret = Some(issued[i].secret)

LastCalls(q, n) == SubSeq(q.calls, Len(q.calls) - n + 1, Len(q.calls))

\* C5: a request that is not rejected, skipped or verified, generates a pair with
\* the primary cipher, saves that secret, and has the encoding of the new token in
\* the depot when the next handler is called; the exposed token is none of the
\* tokens issued before for the context and is not the token presented.
C5_FreshPairExposed ==
    \A r \in Slots :
        LET q == reqs[r]
        IN  /\ (Decided(q) /\ ~Rejected(q)) =>
                   /\ Continued(q)
                   /\ q.gen_cipher = guard.cipher
                   /\ verify(guard.cipher, q.new_token, q.new_secret)
            /\ (q.pc \in {"saved", "next", "done"} /\ q.saved) =>
                   store[q.ctx] = Some(q.new_secret)
            /\ NextInvoked(q) =>
                   /\ q.depot = Some(b64_encode(q.new_token))
                   /\ LastCalls(q, 4) = << <<"generate", guard.cipher>>,
                                           Call("save_secret"), Call("insert"),
                                           Call("call_next") >>
                   /\ q.found # q.depot
                   /\ issued[Len(issued)].token = q.depot.val
                   /\ \A i \in 1..(Len(issued) - 1) :
                          issued[i].ctx = q.ctx => issued[i].token # q.depot.val

\* reached: a verified request exposes a new token after an earlier token was
\* issued for its context
C5_Witness ==
    \E r \in Slots :
        /\ NextInvoked(reqs[r]) /\ ~reqs[r].skipped
        /\ Len(issued) >= 2

\* C6: with the default skipper a request is skipped exactly when its method is
\* none of POST, PATCH, PUT, DELETE; a skipped request is never rejected, and no
\* finder, no load_secret and no verify is called for it.
C6_DefaultSkip ==
    \A r \in Slots :
        LET q == reqs[r]
        IN  Started(q) =>
            /\ q.skipped <=> (q.method \notin {"POST", "PATCH", "PUT", "DELETE"})
            /\ q.skipped =>
                   /\ ~Rejected(q) /\ q.status = None /\ ~q.skip_rest
                   /\ \A i \in 1..Len(q.calls) :
                          q.calls[i][1] \notin {"finder", "decode", "load_secret", "verify"}
                   /\ q.found = None /\ q.token = None /\ q.secret = None

\* reached: a HEAD request is skipped and continues although the store holds a
\* secret
C6_Witness ==
    \E r \in Slots :
        /\ reqs[r].method = "HEAD" /\ reqs[r].skipped /\ NextInvoked(reqs[r])
        /\ store[reqs[r].ctx].some

\* C7: when save_secret returns Err on the continue path, the request is not
\* rejected: no 403, no skip_rest, the new token is in the depot and the next
\* handler is invoked.
C7_SaveErrorContinues ==
    \A r \in Slots :
        LET q == reqs[r]
        IN  (q.pc \notin {"idle", "saving", "saved"} /\ HasGenerated(q) /\ ~q.saved) =>
                /\ NextInvoked(q)
                /\ q.status = None /\ ~q.skip_rest
                /\ q.depot = Some(b64_encode(q.new_token))
                /\ q.next_calls = 1

\* reached: the next handler runs after save_secret returned Err
C7_Witness ==
    \E r \in Slots : NextInvoked(reqs[r]) /\ ~reqs[r].saved /\ ~reqs[r].skipped

\* the pairs issued for context x, as indexes of issued
IssuedFor(x) == {i \in 1..Len(issued) : issued[i].ctx = x}

Max(S) == CHOOSE n \in S : \A m \in S : m <= n

LastIssuedFor(x) == issued[Max(IssuedFor(x))]

GeneratedSecrets == {generate(c, n).secret : c \in Ciphers, n \in 1..rng}

C10_OldTokenNewSecretRejected ==
    \A r \in Slots :
        LET q == reqs[r]
        IN  (/\ Decided(q) /\ ~q.skipped /\ q.found.some /\ q.secret.some
             /\ \E i, j \in IssuedFor(q.ctx) :
                    /\ i < j
                    /\ q.found.val = issued[i].token
                    /\ q.secret.val = issued[j].secret)
            => /\ Rejected(q)
               /\ q.status = Some(FORBIDDEN) /\ q.skip_rest
               /\ q.next_calls = 0

\* reached: a request presenting the first issued token against the secret of the
\* second issued pair, both of the guard's primary cipher, is rejected
C10_Witness ==
    \E r \in Slots :
        LET q == reqs[r]
        IN  /\ Rejected(q) /\ q.found.some /\ q.secret.some
            /\ \E i, j \in IssuedFor(q.ctx) \cap IssuedByGuard :
                   /\ i < j
                   /\ q.found.val = issued[i].token
                   /\ q.secret.val = issued[j].secret

\* why handle rejected request q
RejectionCause(q) ==
    IF NoTokenFound(q) THEN "no token found"
    ELSE IF Undecodable(q) THEN "decode failure"
    ELSE IF NoSecret(q) THEN "no stored secret"
    ELSE "verification failure"

\* what handle has written for request q that reaches the client: the response
\* status, the flow control, the token in the depot, the secret handed to the store
ClientVisible(q) ==
    [status |-> q.status, skip_rest |-> q.skip_rest, depot |-> q.depot,
     next_calls |-> q.next_calls, new_token |-> q.new_token, saved |-> q.saved,
     writes |-> {i \in 1..Len(q.calls) :
                     q.calls[i][1] \in {"generate", "save_secret", "insert", "call_next"}}]

\* C11: two requests rejected for different causes (no token found, decode
\* failure, no stored secret, verification failure) have the same client-visible
\* effect: status 403 and skip_rest, nothing in the depot, no pair generated, no
\* secret saved, the next handler not called.
C11_RejectionsIndistinguishable ==
    \A r, s \in Slots :
        (/\ Rejected(reqs[r]) /\ Rejected(reqs[s])
         /\ RejectionCause(reqs[r]) # RejectionCause(reqs[s]))
        => /\ ClientVisible(reqs[r]) = ClientVisible(reqs[s])
           /\ ClientVisible(reqs[r]) =
                  [status |-> Some(FORBIDDEN), skip_rest |-> TRUE, depot |-> None,
                   next_calls |-> 0, new_token |-> <<>>, saved |-> FALSE,
                   writes |-> {}]

\* reached: one request rejected for a verification failure while another is
\* rejected for an undecodable token
C11_Witness ==
    \E r, s \in Slots :
        /\ Rejected(reqs[r]) /\ RejectionCause(reqs[r]) = "verification failure"
        /\ Rejected(reqs[s]) /\ RejectionCause(reqs[s]) = "decode failure"

\* the finders called for request q, in the order of the calls
FinderCalls(q) ==
    LET F == SelectSeq(q.calls, LAMBDA c : c[1] = "finder")
    IN  [i \in 1..Len(F) |-> F[i][2]]

\* the positions in the list fs of the finders that yield a token from content
Yielding(fs, content) == {i \in 1..Len(fs) : content[fs[i]].some}

FindTokenInOrder ==
    \A r \in Slots :
        LET q == reqs[r]
            fs == guard.finders
            content == [header |-> q.header, query |-> q.query]
            Y == Yielding(fs, content)
            k == CHOOSE i \in Y : \A j \in Y : i <= j
        IN  (q.pc \notin {"idle", "finding"} /\ ~q.skipped) =>
                /\ (Y = {}) <=> (q.found = None)
                /\ Y = {} => FinderCalls(q) = fs
                /\ Y # {} => /\ q.found = content[fs[k]]
                             /\ FinderCalls(q) = SubSeq(fs, 1, k)

FindersAppended ==
    guard'.finders # guard.finders =>
        \E f \in Locations : guard'.finders = Append(guard.finders, f)

\* C12: the list of finders is the finder given to Csrf::new followed by the
\* finders of the add_finder calls in call order; find_token calls the finders in
\* that order up to and including the first that yields a token, returns what that
\* finder yielded, and returns none exactly when every finder yields none.
C12_FirstFinderWins ==
    /\ Len(guard.finders) = 1
    /\ []FindTokenInOrder
    /\ [][FindersAppended]_vars

\* reached: with the finders <<query, header>>, a request carrying different texts
\* at both locations has the text of the query found and the header finder not
\* called
C12_Witness ==
    \E r \in Slots :
        LET q == reqs[r]
        IN  /\ q.pc \notin {"idle", "finding"} /\ ~q.skipped
            /\ guard.finders = <<"query", "header">>
            /\ q.header.some /\ q.query.some /\ q.header # q.query
            /\ q.found = q.query
            /\ FinderCalls(q) = <<"query">>

\* the calls of request q on ciphers: <<operation, cipher>>
CipherCalls(q) == SelectSeq(q.calls, LAMBDA c : c[1] \in {"verify", "generate"})

\* C13: every pair a request generates is generated by the guard's primary
\* cipher, whatever fallback ciphers are listed; a cipher that is only listed as
\* a fallback is never asked to generate.
C13_PrimaryGenerates ==
    \A r \in Slots :
        LET q == reqs[r]
            C == CipherCalls(q)
        IN  /\ \A i \in 1..Len(C) : C[i][1] = "generate" => C[i][2] = guard.cipher
            /\ HasGenerated(q) =>
                   /\ q.gen_cipher = guard.cipher
                   /\ [token |-> q.new_token, secret |-> q.new_secret]
                          = generate(guard.cipher, q.new_secret[1])
                   /\ Cardinality({i \in 1..Len(C) : C[i][1] = "generate"}) = 1
                   /\ C[Len(C)] = <<"generate", guard.cipher>>

\* reached: a guard whose fallback cipher differs from its primary cipher has
\* verified a token and generated the new pair
C13_Witness ==
    \E r \in Slots :
        /\ HasGenerated(reqs[r]) /\ ~reqs[r].skipped /\ reqs[r].valid
        /\ guard.fallback_ciphers # <<>>
        /\ guard.fallback_ciphers[1] # guard.cipher

\* the place of a call in the order of handle's steps
StepRank(c) ==
    CASE c[1] = "skipper" -> 0
      [] c[1] = "finder" -> 1
      [] c[1] = "decode" -> 2
      [] c[1] = "load_secret" -> 3
      [] c[1] = "verify" -> 4
      [] OTHER -> 5

\* the number of calls of op that request q has made
Called(q, op) == Cardinality({i \in 1..Len(q.calls) : q.calls[i][1] = op})

\* C14: a non-skipped request calls the finders, then decode, then load_secret,
\* then the ciphers' verify, each step only after the one before it succeeded; it
\* is rejected at the first step that fails: no decode, load_secret or verify
\* when no token is found, no load_secret or verify when decoding fails, no
\* verify when no secret is loaded, and nothing but set_status and skip_rest
\* after the failure.
C14_StepsInOrder ==
    \A r \in Slots :
        LET q == reqs[r]
        IN  (Started(q) /\ ~q.skipped) =>
            /\ \A i, j \in 1..Len(q.calls) :
                   i < j => StepRank(q.calls[i]) <= StepRank(q.calls[j])
            /\ Called(q, "decode") <= 1 /\ Called(q, "load_secret") <= 1
            /\ Called(q, "decode") = 1 => q.found.some /\ Called(q, "finder") >= 1
            /\ Called(q, "load_secret") = 1 =>
                   /\ Called(q, "decode") = 1
                   /\ q.token = Some(b64_decode(q.found.val).bytes)
                   /\ b64_decode(q.found.val).ok
            /\ Called(q, "verify") >= 1 =>
                   Called(q, "load_secret") = 1 /\ q.secret.some
            /\ (q.pc # "finding" /\ NoTokenFound(q)) =>
                   /\ Rejected(q)
                   /\ Called(q, "decode") = 0 /\ Called(q, "load_secret") = 0
                   /\ Called(q, "verify") = 0
            /\ Undecodable(q) =>
                   /\ Rejected(q)
                   /\ Called(q, "load_secret") = 0 /\ Called(q, "verify") = 0
            /\ (q.pc # "loading" /\ NoSecret(q)) =>
                   Rejected(q) /\ Called(q, "verify") = 0
            /\ Rejected(q) =>
                   /\ LastCalls(q, 2) = <<Call("set_status"), Call("skip_rest")>>
                   /\ \A i \in 1..(Len(q.calls) - 2) : StepRank(q.calls[i]) <= 4

\* reached: a request with an undecodable text is rejected without load_secret
\* being called, while the store holds a secret for its context
C14_Witness ==
    \E r \in Slots :
        /\ Rejected(reqs[r]) /\ Undecodable(reqs[r])
        /\ store[reqs[r].ctx].some
        /\ Called(reqs[r], "load_secret") = 0

\* handle has returned
Returned(q) == q.pc \in {"done", "rejected"}

RejectedOutcome(q) ==
    q.status = Some(FORBIDDEN) /\ q.skip_rest /\ q.next_calls = 0

ContinueOutcome(q) ==
    q.status = None /\ ~q.skip_rest /\ q.next_calls = 1

\* how far handle has run
PcRank(pc) ==
    CASE pc = "idle" -> 0
      [] pc = "finding" -> 1
      [] pc = "loading" -> 2
      [] pc = "saving" -> 3
      [] pc = "saved" -> 4
      [] pc = "next" -> 5
      [] OTHER -> 6

OneOutcome ==
    \A r \in Slots :
        LET q == reqs[r]
        IN  /\ q.next_calls <= 1
            /\ ~(q.status = Some(FORBIDDEN) /\ q.next_calls > 0)
            /\ Returned(q) =>
                   /\ RejectedOutcome(q) \/ ContinueOutcome(q)
                   /\ ~(RejectedOutcome(q) /\ ContinueOutcome(q))
                   /\ RejectedOutcome(q) <=> Rejected(q)
            \* an invocation that has not returned can take its next step (the
            \* random source of the run permitting)
            /\ q.pc = "finding" => ENABLED FindDone(r, None, None)
            /\ (q.pc = "loading" /\ rng < MaxGen) => ENABLED LoadDone(r, MaxGen)
            /\ q.pc = "saving" => ENABLED SaveSecret(r, TRUE)
            /\ q.pc = "saved" => ENABLED SaveDone(r)
            /\ q.pc = "next" => ENABLED NextDone(r)

\* every step of an invocation moves it forward, so it returns after at most six
StepsForward ==
    \A r \in Slots :
        (reqs'[r] # reqs[r] /\ Started(reqs[r])) =>
            IF Returned(reqs[r]) THEN reqs'[r] = IdleReq
            ELSE PcRank(reqs'[r].pc) > PcRank(reqs[r].pc)

\* C15: every invocation of handle returns after a bounded number of steps, and
\* when it has returned it is in exactly one of two outcomes: rejected (403,
\* skip_rest, the next handler never invoked) or continue (no 403, no skip_rest,
\* the next handler invoked exactly once).
C15_OneOutcome == []OneOutcome /\ [][StepsForward]_vars

\* reached: a POST request has returned on the continue path
C15_Witness ==
    \E r \in Slots :
        /\ reqs[r].pc = "done" /\ reqs[r].method = "POST"
        /\ ContinueOutcome(reqs[r])

RejectedWritesNothing ==
    \A r \in Slots :
        LET q == reqs[r]
        IN  Rejected(q) =>
            /\ Called(q, "generate") = 0 /\ Called(q, "save_secret") = 0
            /\ Called(q, "insert") = 0 /\ Called(q, "call_next") = 0
            /\ q.new_token = <<>> /\ q.new_secret = <<>> /\ ~q.saved
            /\ q.depot = None
            /\ q.secret.some => store[q.ctx] = q.secret

\* the store and the random source change only in a step of a request that is
\* not rejected: the store in the save of a request that generated a pair
StoreChangedBySaveOnly ==
    /\ \A r \in Slots :
           (Rejected(reqs'[r]) /\ ~Rejected(reqs[r])) => store' = store /\ rng' = rng
    /\ \A x \in Contexts :
           store'[x] # store[x] =>
               \E r \in Slots :
                   /\ reqs[r].pc = "saving" /\ reqs[r].ctx = x
                   /\ HasGenerated(reqs[r]) /\ ~Rejected(reqs'[r])

\* C16: a rejected request has called neither generate nor save_secret nor
\* depot.insert, its depot holds no token, and the secret stored for its context
\* is the one it found there; the store changes only when a request that is not
\* rejected saves the secret it generated.
C16_RejectionFrame == []RejectedWritesNothing /\ [][StoreChangedBySaveOnly]_vars

\* reached: a request is rejected after verification against a stored secret,
\* which the store still holds
C16_Witness ==
    \E r \in Slots :
        LET q == reqs[r]
        IN  /\ Rejected(q) /\ q.secret.some /\ Called(q, "verify") >= 1
            /\ store[q.ctx] = q.secret

\* C17: of the non-skipped requests of one context in flight that present the
\* same token, at most one is passed to the next handler.
C17_OneAcceptedPerToken ==
    \A r, s \in Slots :
        (/\ r # s
         /\ ~reqs[r].skipped /\ ~reqs[s].skipped
         /\ reqs[r].ctx = reqs[s].ctx
         /\ reqs[r].found.some /\ reqs[r].found = reqs[s].found)
        => ~(NextInvoked(reqs[r]) /\ NextInvoked(reqs[s]))

\* the decision of handle is a function of the text found in the request and the
\* secret loaded for it
OutcomeByRequestAndSecret ==
    /\ \A r \in Slots :
           LET q == reqs[r]
           IN  (Decided(q) /\ ~q.skipped) =>
                   (Continued(q) <=>
                        /\ q.found.some /\ b64_decode(q.found.val).ok /\ q.secret.some
                        /\ check_token(guard, b64_decode(q.found.val).bytes, q.secret.val))
    /\ \A r, s \in Slots :
           (/\ Decided(reqs[r]) /\ Decided(reqs[s])
            /\ reqs[r].method = reqs[s].method
            /\ reqs[r].found = reqs[s].found
            /\ reqs[r].secret = reqs[s].secret)
           => (Rejected(reqs[r]) <=> Rejected(reqs[s]))

\* a step of handle leaves the guard as it is, loads the secret stored for the
\* request's own context, and changes the stored secret of no context but the
\* one of the request that saves
OwnContextOnly ==
    /\ (\E r \in Slots : reqs'[r] # reqs[r]) => guard' = guard
    /\ \A r \in Slots :
           (reqs[r].pc = "loading" /\ reqs'[r].pc # "loading") =>
               reqs'[r].secret = store[reqs[r].ctx]
    /\ \A x \in Contexts :
           store'[x] # store[x] =>
               \E r \in Slots :
                   /\ reqs[r].pc = "saving" /\ reqs'[r].pc = "saved"
                   /\ reqs[r].ctx = x
                   /\ \A y \in Contexts \ {x} : store'[y] = store[y]

\* C18: handling a request never changes the guard (cipher, finders, fallback
\* ciphers); a request loads the secret stored for its own context and a save
\* changes the stored secret of the saving request's context only; whether a
\* request is rejected is determined by its method, the text found in it and the
\* secret loaded for its context.
C18_OwnContextOnly == []OutcomeByRequestAndSecret /\ [][OwnContextOnly]_vars

\* reached: a request of context c2 presenting the token issued for c1 is
\* rejected against the secret of c2 while the store holds the paired secret for c1
C18_Witness ==
    \E r \in Slots, i \in IssuedFor("c1") :
        LET q == reqs[r]
        IN  /\ q.ctx = "c2" /\ Rejected(q)
            /\ q.found = Some(issued[i].token)
            /\ q.secret.some
            /\ store["c1"] = Some(issued[i].secret)

\* C19: a request that was cancelled after it generated a pair and before the
\* next handler returned has not left its new secret in the store.
C19_CancelledNotPersisted ==
    \A r \in Slots :
        LET q == reqs[r]
        IN  (q.pc = "cancelled" /\ HasGenerated(q)) =>
                store[q.ctx] # Some(q.new_secret)

\* the token and secret values of request q: the text it presented and its
\* decoding, the secret loaded for it, the pair generated for it and the text
\* exposed for the new token
SecretValues(q) ==
    (IF q.found.some THEN {q.found.val} ELSE {})
    \cup (IF q.token.some THEN {q.token.val} ELSE {})
    \cup (IF q.secret.some THEN {q.secret.val} ELSE {})
    \cup (IF HasGenerated(q)
          THEN {q.new_token, q.new_secret, b64_encode(q.new_token)}
          ELSE {})

\* C20: no log record of a request carries in full the token it presented, the
\* token generated for it, or a secret.
C20_NoTokenInLogs ==
    \A r \in Slots :
        LET q == reqs[r]
        IN  \A i \in 1..Len(q.logs) :
                q.logs[i].value.some => q.logs[i].value.val \notin SecretValues(q)

====
